---- MODULE Spec2Model ----
(***************************************************************************)
(* Model of binomial_tree.py: the recombining binomial short-rate lattice  *)
(* (get_rate_at_node, build_rates_tree), the backward-induction price      *)
(* lattice (build_prices_tree) and the spot rate (get_spot_rate).          *)
(*                                                                         *)
(* A run of the model is one top-level call.  Init draws the function and  *)
(* its arguments; every statement of the called function is one action.    *)
(*                                                                         *)
(* Numbers.  The program computes in IEEE-754 doubles.  The model computes  *)
(* with exact rationals extended by +inf, -inf and NaN, combined by the    *)
(* IEEE rules (x/0 = +-inf, 0/0 = inf-inf = 0*inf = NaN).  Rounding is not  *)
(* modelled, and -0.0 is not told apart from 0.0.                          *)
(***************************************************************************)
EXTENDS Integers, Sequences, FiniteSets

\* ------------------------------------------------------------------------
\* Bounds of the model
\* ------------------------------------------------------------------------

\* largest horizon (argument Time / periods), largest time and state argument
MaxT == 2

\* ------------------------------------------------------------------------
\* Extended rational arithmetic (the float64 values of the program)
\* ------------------------------------------------------------------------

Abs(x) == IF x < 0 THEN -x ELSE x

RECURSIVE GCD(_, _)
GCD(a, b) == IF b = 0 THEN a ELSE GCD(b, a % b)

\* the rational n/d (d # 0) in lowest terms with a positive denominator
Fin(n, d) ==
    LET g == GCD(Abs(n), Abs(d))
        s == IF d < 0 THEN -1 ELSE 1
    IN  [k |-> "fin", n |-> (s * n) \div g, d |-> (s * d) \div g]

\* np.NaN, the fill value of both lattices
NaN == [k |-> "nan", n |-> 0, d |-> 1]

Inf == [k |-> "inf", n |-> 1, d |-> 1]

NegInf == [k |-> "inf", n |-> -1, d |-> 1]

\* placeholder for "no value": a lattice not yet allocated, nothing returned
NoValue == [k |-> "none", n |-> 0, d |-> 1]

Zero == Fin(0, 1)

One == Fin(1, 1)

Half == Fin(1, 2)

\* the notional, the literal 100.00 of build_prices_tree and 100 of get_spot_rate
Notional == Fin(100, 1)

IsFin(x) == x.k = "fin"

IsNaN(x) == x.k = "nan"

IsInf(x) == x.k = "inf"

IsZero(x) == x.k = "fin" /\ x.n = 0

\* -1, 0 or 1 for finite and infinite values
Sign(x) == IF x.n < 0 THEN -1 ELSE IF x.n > 0 THEN 1 ELSE 0

SignedInf(s) == IF s < 0 THEN NegInf ELSE Inf

\* float64 a + b
FAdd(a, b) ==
    IF IsNaN(a) \/ IsNaN(b) THEN NaN
    ELSE IF IsInf(a) /\ IsInf(b) THEN (IF a.n = b.n THEN a ELSE NaN)
    ELSE IF IsInf(a) THEN a
    ELSE IF IsInf(b) THEN b
    ELSE Fin(a.n * b.d + b.n * a.d, a.d * b.d)

\* float64 a * b
FMul(a, b) ==
    IF IsNaN(a) \/ IsNaN(b) THEN NaN
    ELSE IF IsInf(a) \/ IsInf(b)
         THEN (IF IsZero(a) \/ IsZero(b) THEN NaN
               ELSE SignedInf(Sign(a) * Sign(b)))
    ELSE Fin(a.n * b.n, a.d * b.d)

\* numpy float64 a / b: division by zero gives an infinity (or NaN for 0/0)
\* and a RuntimeWarning, never an exception
FDiv(a, b) ==
    IF IsNaN(a) \/ IsNaN(b) THEN NaN
    ELSE IF IsInf(a) /\ IsInf(b) THEN NaN
    ELSE IF IsInf(a) THEN SignedInf(Sign(a) * (IF Sign(b) < 0 THEN -1 ELSE 1))
    ELSE IF IsInf(b) THEN Zero
    ELSE IF IsZero(b) THEN (IF IsZero(a) THEN NaN ELSE SignedInf(Sign(a)))
    ELSE Fin(a.n * b.d, a.d * b.n)

\* a < b on finite values
FLess(a, b) == IsFin(a) /\ IsFin(b) /\ a.n * b.d < b.n * a.d

\* x ** e for an integer exponent e >= 0, with x ** 0 = 1 (also 0 ** 0)
RECURSIVE FPow(_, _)
FPow(x, e) == IF e <= 0 THEN One ELSE FMul(x, FPow(x, e - 1))

\* ------------------------------------------------------------------------
\* Inputs
\* ------------------------------------------------------------------------

\* the four functions of the module; a run is one call of one of them
Functions ==
    {"get_rate_at_node", "build_rates_tree", "build_prices_tree", "get_spot_rate"}

\* values of initial_rate (short_rate); the code accepts any sign
RateSet == {Fin(-1, 1), Fin(-1, 2), Zero, Fin(1, 2), One}

\* values of up_move and down_move; the code accepts any sign
MoveSet == {Fin(-1, 1), Zero, Fin(1, 2), One, Fin(2, 1)}

\* ------------------------------------------------------------------------
\* get_rate_at_node
\* ------------------------------------------------------------------------

\* a faulty guard, off by one: state = time + 1 is let through
InvalidState_OffByOne(time, state) == time + 1 < state

\* the guard of get_rate_at_node: the state exceeds the time
InvalidState(time, state) == time < state

\* a faulty rate: down_move raised to time instead of time - state
NodeRate_DownExpTime(r0, u, d, time, state) ==
    FMul(FMul(FPow(u, state), FPow(d, time)), r0)

\* a faulty rate: the exponents of up_move and down_move exchanged
NodeRate_SwappedExp(r0, u, d, time, state) ==
    FMul(FMul(FPow(u, time - state), FPow(d, state)), r0)

\* (up_move ** state) * down_move ** (time - state) * initial_rate
NodeRate(r0, u, d, time, state) ==
    FMul(FMul(FPow(u, state), FPow(d, time - state)), r0)

\* the outcome of a call: err is "none" and val the rate, or err names the
\* exception raised and val is NoValue
get_rate_at_node(r0, u, d, time, state) ==
    IF InvalidState(time, state)
    THEN [err |-> "ValueError", val |-> NoValue]
    ELSE [err |-> "none", val |-> NodeRate(r0, u, d, time, state)]

\* ------------------------------------------------------------------------
\* Lattices and loops
\* ------------------------------------------------------------------------

\* np.full((n, n), v): rows and columns 0 .. n-1
Full(n, v) == [i \in 0..(n - 1) |-> [j \in 0..(n - 1) |-> v]]

\* the lattice after lat[i, j] = v for every <<i, j>> of cells
Assign(lat, cells, v) ==
    [i \in DOMAIN lat |->
        [j \in DOMAIN lat[i] |-> IF <<i, j>> \in cells THEN v ELSE lat[i][j]]]

\* the cells of a lattice of horizon T, valid or not
Cells(T) == (0..T) \X (0..T)

\* the cells with 0 <= j <= i <= T
ValidCells(T) == {c \in Cells(T) : c[2] <= c[1]}

\* a counter per cell, with the cells of cs counted once more
Bump(cnt, cs) == [c \in DOMAIN cnt |-> IF c \in cs THEN cnt[c] + 1 ELSE cnt[c]]

\* a faulty outer range of build_rates_tree: the last time step is left out
RateTimeRange_Short(n) == [k \in 1..(n - 1) |-> k - 1]

\* range(Time) of build_rates_tree, where Time is already the horizon plus 1
RateTimeRange(n) == [k \in 1..n |-> k - 1]

\* a faulty inner range of build_rates_tree: range(time), without the top state
RateStateRange_Short(time) == [k \in 1..time |-> k - 1]

\* range(time + 1) of build_rates_tree
RateStateRange(time) == [k \in 1..(time + 1) |-> k - 1]

\* a faulty outer range of build_prices_tree: range(Time), forward in time
PriceTimeRange_Ascending(T) == [k \in 1..T |-> k - 1]

\* range(Time-1, -1, -1) of build_prices_tree
PriceTimeRange(T) == [k \in 1..T |-> T - k]

\* range(time, -1, -1) of build_prices_tree
PriceStepRange(time) == [k \in 1..(time + 1) |-> time + 1 - k]

\* the cell assigned before the loop of build_rates_tree: tree[0,0]
RootCells == {<<0, 0>>}

\* a faulty terminal assignment: price_tree[:, Time] = 100.00, a column
TerminalCells_Column(T) == {<<i, T>> : i \in 0..T}

\* the cells assigned by price_tree[Time, :] = 100.00
TerminalCells(T) == {<<T, j>> : j \in 0..T}

Min(S) == CHOOSE x \in S : \A y \in S : x <= y

\* position <<ti, si>> of the next iteration of a nested for loop after
\* position <<ti, si>> (<<0, 0>> before the first one), lens[k] being the
\* length of the inner range at position k of the outer range; <<0, 0>> when
\* the loops are exhausted
LoopNext(lens, ti, si) ==
    IF ti >= 1 /\ si < lens[ti]
    THEN <<ti, si + 1>>
    ELSE LET rest == {x \in (ti + 1)..Len(lens) : lens[x] > 0}
         IN  IF rest = {} THEN <<0, 0>> ELSE <<Min(rest), 1>>

\* the lengths of the inner ranges of build_rates_tree's loops, horizon T
RateLoops(T) ==
    [k \in 1..Len(RateTimeRange(T + 1)) |->
        Len(RateStateRange(RateTimeRange(T + 1)[k]))]

\* the lengths of the inner ranges of build_prices_tree's loops, horizon T
PriceLoops(T) ==
    [k \in 1..Len(PriceTimeRange(T)) |->
        Len(PriceStepRange(PriceTimeRange(T)[k]))]

\* ------------------------------------------------------------------------
\* build_prices_tree and get_spot_rate: the arithmetic
\* ------------------------------------------------------------------------

\* discount_factor = 1/(1 + rate)
DiscountFactor(rate) == FDiv(One, FAdd(One, rate))

\* a faulty price: the down price is not weighted by 0.5
Price_DownUnweighted(prior_up_price, prior_down_price, discount_factor) ==
    FMul(FAdd(FMul(Half, prior_up_price), prior_down_price), discount_factor)

\* ((0.5 * prior_up_price) + (0.5 * prior_down_price)) * discount_factor
Price(prior_up_price, prior_down_price, discount_factor) ==
    FMul(FAdd(FMul(Half, prior_up_price), FMul(Half, prior_down_price)),
         discount_factor)

\* a faulty exponent: 1/periods never raises (as float division would not)
SpotExponentFails_Never(periods) == FALSE

\* 1/periods on Python ints raises ZeroDivisionError for periods = 0
SpotExponentFails(periods) == periods = 0

\* base ** (1/periods) for periods >= 1.  A root that is not one of the
\* trivial cases is kept as the symbol [k |-> "root"]: the periods-th root
\* of n/d
Root(base, periods) ==
    IF periods = 1 \/ IsNaN(base) THEN base
    ELSE IF IsInf(base) THEN Inf
    ELSE IF Sign(base) < 0 THEN NaN
    ELSE IF base = Zero \/ base = One THEN base
    ELSE [k |-> "root", n |-> base.n, d |-> base.d]

\* ((100/bond_price)**(1/periods)) - 1; on a symbolic root the result is the
\* symbol [k |-> "root_minus_1"]
SpotRate(bond_price, periods) ==
    LET r == Root(FDiv(Notional, bond_price), periods)
    IN  IF r.k = "root" THEN [r EXCEPT !.k = "root_minus_1"]
        ELSE FAdd(r, Fin(-1, 1))

\* ------------------------------------------------------------------------
\* State
\* ------------------------------------------------------------------------

VARIABLES
    fn,            \* the function called
    initial_rate,  \* argument initial_rate (short_rate)
    up_move,       \* argument up_move
    down_move,     \* argument down_move
    Time,          \* argument Time (periods), the horizon T
    arg_time,      \* argument time of a direct get_rate_at_node call
    arg_state,     \* argument state of a direct get_rate_at_node call
    pc,            \* the statement to execute next
    rates_tree,    \* tree of build_rates_tree, rates_tree of build_prices_tree
    price_tree,    \* price_tree of build_prices_tree
    ti,            \* position of the running outer loop in its range
    si,            \* position of the running inner loop in its range
    outcome,       \* "running", "returned" or the exception raised
    retval,        \* the scalar returned (get_rate_at_node, get_spot_rate)
    rwrites,       \* history: assignments to each cell of the rate lattice
    rcalls,        \* history: get_rate_at_node evaluations for each cell
    pwrites,       \* history: assignments to each cell of the price lattice
    rd,            \* history: lattice cells read by the latest statement
    wr             \* history: lattice cells assigned by the latest statement

vars == <<fn, initial_rate, up_move, down_move, Time, arg_time, arg_state, pc,
          rates_tree, price_tree, ti, si, outcome, retval,
          rwrites, rcalls, pwrites, rd, wr>>

args == <<fn, initial_rate, up_move, down_move, Time, arg_time, arg_state>>

\* the first statement of each function
Entry(f) ==
    CASE f = "get_rate_at_node" -> "node"
      [] f = "build_rates_tree" -> "rates_alloc"
      [] OTHER -> "prices_alloc"

Init ==
    /\ fn \in Functions
    /\ initial_rate \in RateSet
    /\ up_move \in MoveSet
    /\ down_move \in MoveSet
    /\ IF fn = "get_rate_at_node"
       THEN Time = 0 /\ arg_time \in 0..MaxT /\ arg_state \in 0..MaxT
       ELSE Time \in 0..MaxT /\ arg_time = 0 /\ arg_state = 0
    /\ pc = Entry(fn)
    /\ rates_tree = Full(0, NaN)
    /\ price_tree = Full(0, NaN)
    /\ ti = 0
    /\ si = 0
    /\ outcome = "running"
    /\ retval = NoValue
    /\ rwrites = [c \in Cells(Time) |-> 0]
    /\ rcalls = [c \in Cells(Time) |-> 0]
    /\ pwrites = [c \in Cells(Time) |-> 0]
    /\ rd = {}
    /\ wr = {}

\* ------------------------------------------------------------------------
\* Actions: one per statement of the running call
\* ------------------------------------------------------------------------

\* the current time and state of build_rates_tree's loops
RateTime == RateTimeRange(Time + 1)[ti]

RateState == RateStateRange(RateTime)[si]

\* the current time and step of build_prices_tree's loops
PriceTime == PriceTimeRange(Time)[ti]

PriceStep == PriceStepRange(PriceTime)[si]

\* a direct call get_rate_at_node(initial_rate, up_move, down_move, time, state)
GetRateAtNode ==
    /\ pc = "node"
    /\ LET r == get_rate_at_node(initial_rate, up_move, down_move,
                                 arg_time, arg_state)
       IN  /\ outcome' = (IF r.err = "none" THEN "returned" ELSE r.err)
           /\ retval' = r.val
    /\ pc' = "done"
    /\ rd' = {}
    /\ wr' = {}
    /\ UNCHANGED <<args, rates_tree, price_tree, ti, si, rwrites, rcalls, pwrites>>

\* build_rates_tree: Time += 1; tree = np.full((Time,Time), np.NaN)
RatesAlloc ==
    /\ pc = "rates_alloc"
    /\ rates_tree' = Full(Time + 1, NaN)
    /\ pc' = "rates_root"
    /\ rd' = {}
    /\ wr' = {}
    /\ UNCHANGED <<args, price_tree, ti, si, outcome, retval,
                   rwrites, rcalls, pwrites>>

\* build_rates_tree: tree[0,0] = initial_rate, then the loops are entered
RatesRoot ==
    /\ pc = "rates_root"
    /\ rates_tree' = Assign(rates_tree, RootCells, initial_rate)
    /\ rwrites' = Bump(rwrites, RootCells)
    /\ wr' = {<<"R", c[1], c[2]>> : c \in RootCells}
    /\ rd' = {}
    /\ LET nxt == LoopNext(RateLoops(Time), 0, 0)
       IN  /\ ti' = nxt[1]
           /\ si' = nxt[2]
           /\ pc' = (IF nxt = <<0, 0>> THEN "rates_return" ELSE "rates_loop")
    /\ UNCHANGED <<args, price_tree, outcome, retval, rcalls, pwrites>>

\* build_rates_tree: one iteration of the inner loop,
\* tree[time, state] = get_rate_at_node(...); an exception of
\* get_rate_at_node ends the whole call
RatesCell ==
    /\ pc = "rates_loop"
    /\ LET time == RateTime
           state == RateState
           r == get_rate_at_node(initial_rate, up_move, down_move, time, state)
           nxt == LoopNext(RateLoops(Time), ti, si)
       IN  /\ rcalls' = Bump(rcalls, {<<time, state>>})
           /\ rd' = {}
           /\ IF r.err # "none"
              THEN /\ outcome' = r.err
                   /\ pc' = "done"
                   /\ wr' = {}
                   /\ UNCHANGED <<rates_tree, rwrites, ti, si>>
              ELSE /\ rates_tree' = Assign(rates_tree, {<<time, state>>}, r.val)
                   /\ rwrites' = Bump(rwrites, {<<time, state>>})
                   /\ wr' = {<<"R", time, state>>}
                   /\ ti' = nxt[1]
                   /\ si' = nxt[2]
                   /\ pc' = (IF nxt = <<0, 0>> THEN "rates_return"
                             ELSE "rates_loop")
                   /\ UNCHANGED outcome
    /\ UNCHANGED <<args, price_tree, retval, pwrites>>

\* build_rates_tree: return tree, to the user or to build_prices_tree, which
\* then enters its loops
RatesReturn ==
    /\ pc = "rates_return"
    /\ rd' = {}
    /\ wr' = {}
    /\ IF fn = "build_rates_tree"
       THEN /\ outcome' = "returned"
            /\ pc' = "done"
            /\ UNCHANGED <<ti, si>>
       ELSE LET nxt == LoopNext(PriceLoops(Time), 0, 0)
            IN  /\ ti' = nxt[1]
                /\ si' = nxt[2]
                /\ pc' = (IF nxt = <<0, 0>> THEN "prices_return"
                          ELSE "prices_loop")
                /\ UNCHANGED outcome
    /\ UNCHANGED <<args, rates_tree, price_tree, retval, rwrites, rcalls, pwrites>>

\* build_prices_tree: price_tree = np.full((Time+1, Time+1), np.NaN)
PricesAlloc ==
    /\ pc = "prices_alloc"
    /\ price_tree' = Full(Time + 1, NaN)
    /\ pc' = "prices_terminal"
    /\ rd' = {}
    /\ wr' = {}
    /\ UNCHANGED <<args, rates_tree, ti, si, outcome, retval,
                   rwrites, rcalls, pwrites>>

\* build_prices_tree: price_tree[Time, :] = 100.00, then build_rates_tree is
\* called
PricesTerminal ==
    /\ pc = "prices_terminal"
    /\ price_tree' = Assign(price_tree, TerminalCells(Time), Notional)
    /\ pwrites' = Bump(pwrites, TerminalCells(Time))
    /\ wr' = {<<"P", c[1], c[2]>> : c \in TerminalCells(Time)}
    /\ rd' = {}
    /\ pc' = "rates_alloc"
    /\ UNCHANGED <<args, rates_tree, ti, si, outcome, retval, rwrites, rcalls>>

\* build_prices_tree: one iteration of the inner loop
PricesCell ==
    /\ pc = "prices_loop"
    /\ LET time == PriceTime
           step == PriceStep
           rate == rates_tree[time][step]
           discount_factor == DiscountFactor(rate)
           prior_up_price == price_tree[time + 1][step + 1]
           prior_down_price == price_tree[time + 1][step]
           price == Price(prior_up_price, prior_down_price, discount_factor)
           nxt == LoopNext(PriceLoops(Time), ti, si)
       IN  /\ price_tree' = Assign(price_tree, {<<time, step>>}, price)
           /\ pwrites' = Bump(pwrites, {<<time, step>>})
           /\ rd' = {<<"R", time, step>>, <<"P", time + 1, step + 1>>,
                     <<"P", time + 1, step>>}
           /\ wr' = {<<"P", time, step>>}
           /\ ti' = nxt[1]
           /\ si' = nxt[2]
           /\ pc' = (IF nxt = <<0, 0>> THEN "prices_return" ELSE "prices_loop")
    /\ UNCHANGED <<args, rates_tree, outcome, retval, rwrites, rcalls>>

\* build_prices_tree: return price_tree, to the user or to get_spot_rate
PricesReturn ==
    /\ pc = "prices_return"
    /\ rd' = {}
    /\ wr' = {}
    /\ IF fn = "build_prices_tree"
       THEN outcome' = "returned" /\ pc' = "done"
       ELSE pc' = "spot" /\ UNCHANGED outcome
    /\ UNCHANGED <<args, rates_tree, price_tree, ti, si, retval,
                   rwrites, rcalls, pwrites>>

\* get_spot_rate: bond_price = ...[0,0];
\* spot_rate = ((100/bond_price)**(1/periods)) - 1; return spot_rate
SpotCompute ==
    /\ pc = "spot"
    /\ LET bond_price == price_tree[0][0]
       IN  IF SpotExponentFails(Time)
           THEN outcome' = "ZeroDivisionError" /\ UNCHANGED retval
           ELSE outcome' = "returned" /\ retval' = SpotRate(bond_price, Time)
    /\ pc' = "done"
    /\ rd' = {<<"P", 0, 0>>}
    /\ wr' = {}
    /\ UNCHANGED <<args, rates_tree, price_tree, ti, si, rwrites, rcalls, pwrites>>

Next ==
    \/ GetRateAtNode
    \/ RatesAlloc
    \/ RatesRoot
    \/ RatesCell
    \/ RatesReturn
    \/ PricesAlloc
    \/ PricesTerminal
    \/ PricesCell
    \/ PricesReturn
    \/ SpotCompute

Spec == Init /\ [][Next]_vars

\* ------------------------------------------------------------------------
\* Properties
\* ------------------------------------------------------------------------

\* b to the power e on integers, e >= 0
RECURSIVE IPow(_, _)
IPow(b, e) == IF e <= 0 THEN 1 ELSE b * IPow(b, e - 1)

\* u^j * d^(i-j) * r0 as one fraction of integer powers
ClosedForm(r0, u, d, i, j) ==
    Fin(IPow(u.n, j) * IPow(d.n, i - j) * r0.n,
        IPow(u.d, j) * IPow(d.d, i - j) * r0.d)

\* build_rates_tree has returned its lattice (to the user or to
\* build_prices_tree)
RatesReturned ==
    \/ fn = "build_rates_tree" /\ outcome = "returned"
    \/ fn \in {"build_prices_tree", "get_spot_rate"}
         /\ pc \in {"prices_loop", "prices_return", "spot", "done"}
         /\ outcome # "ValueError"

\* build_prices_tree has returned its lattice (to the user or to get_spot_rate)
PricesReturned ==
    \/ fn = "build_prices_tree" /\ outcome = "returned"
    \/ fn = "get_spot_rate" /\ pc \in {"spot", "done"}

\* C1: the lattice returned by build_rates_tree holds u^j * d^(i-j) * r0 in
\* every cell with 0 <= j <= i <= T and NaN in every cell with j > i, so
\* exactly (T+1)(T+2)/2 cells are populated.
C1_RatesClosedForm ==
    RatesReturned =>
        /\ DOMAIN rates_tree = 0..Time
        /\ \A c \in Cells(Time) :
              rates_tree[c[1]][c[2]] =
                 (IF c[2] <= c[1]
                  THEN ClosedForm(initial_rate, up_move, down_move, c[1], c[2])
                  ELSE NaN)
        /\ 2 * Cardinality({c \in Cells(Time) : ~IsNaN(rates_tree[c[1]][c[2]])})
              = (Time + 1) * (Time + 2)

C1_Witness ==
    /\ fn = "build_rates_tree"
    /\ outcome = "returned"
    /\ Time >= 2
    /\ up_move = Fin(2, 1)
    /\ down_move = Fin(1, 2)
    /\ initial_rate = Fin(1, 2)
    /\ rates_tree[2][2] = Fin(2, 1)
    /\ rates_tree[2][0] = Fin(1, 8)
    /\ rates_tree[1][2] = NaN

\* C2: the lattice returned by build_prices_tree has P[T,j] = 100 for every
\* j in 0..T and, for every time in 0..T-1 and state in 0..time,
\* P[time,state] = 0.5 * (P[time+1,state+1] + P[time+1,state])
\*                     * 1/(1 + R[time,state]), R being the rate lattice.
C2_PriceRecurrence ==
    PricesReturned =>
        /\ \A j \in 0..Time : price_tree[Time][j] = Notional
        /\ \A c \in ValidCells(Time) :
              c[1] < Time =>
                 price_tree[c[1]][c[2]] =
                    FMul(FMul(Half, FAdd(price_tree[c[1] + 1][c[2] + 1],
                                         price_tree[c[1] + 1][c[2]])),
                         FDiv(One, FAdd(One,
                              ClosedForm(initial_rate, up_move, down_move,
                                         c[1], c[2]))))

C2_Witness ==
    /\ fn = "build_prices_tree"
    /\ outcome = "returned"
    /\ Time = 2
    /\ initial_rate = One
    /\ up_move = Fin(2, 1)
    /\ down_move = Fin(1, 2)
    /\ price_tree[2][1] = Notional
    /\ price_tree[1][1] = Fin(100, 3)
    /\ price_tree[1][0] = Fin(200, 3)
    /\ price_tree[0][0] = Fin(25, 1)

\* C3: get_rate_at_node raises its error (ValueError) and returns no rate
\* for every pair with state > time, whatever r0, u and d are.
C3_InvalidStateRaises ==
    (fn = "get_rate_at_node" /\ pc = "done" /\ arg_state > arg_time) =>
        outcome = "ValueError" /\ retval = NoValue

C3_Witness ==
    /\ fn = "get_rate_at_node"
    /\ pc = "done"
    /\ arg_state = arg_time + 1
    /\ outcome = "ValueError"

\* C4: get_spot_rate with a zero horizon ends in an error (ZeroDivisionError)
\* and never returns a spot rate, for every r0, u and d.
C4_ZeroHorizonRaises ==
    (fn = "get_spot_rate" /\ Time = 0) =>
        /\ outcome # "returned"
        /\ retval = NoValue
        /\ pc = "done" => outcome = "ZeroDivisionError"

C4_Witness ==
    /\ fn = "get_spot_rate"
    /\ Time = 0
    /\ pc = "done"
    /\ outcome = "ZeroDivisionError"
    /\ price_tree[0][0] = Notional

\* a rate cell used by the backward pass has 1 + R[time,state] = 0
BlowUp ==
    \E c \in ValidCells(Time) :
        c[1] < Time /\ FAdd(One, rates_tree[c[1]][c[2]]) = Zero

\* C5: in build_prices_tree a rate with 1 + R[time,state] = 0 surfaces as an
\* error: the call ends in an error outcome instead of returning a lattice.
C5_BlowUpRaises ==
    (fn = "build_prices_tree" /\ pc = "done" /\ BlowUp) => outcome # "returned"

\* a direct call get_rate_at_node(r0, u, d, i, i) with i >= 1 has returned
TopStateCall ==
    /\ fn = "get_rate_at_node"
    /\ pc = "done"
    /\ outcome = "returned"
    /\ arg_time >= 1
    /\ arg_state = arg_time

\* the rate of the top state (i,i) under the up-move u2, d and r0 unchanged
TopRateWith(u2) ==
    get_rate_at_node(initial_rate, u2, down_move, arg_time, arg_time).val

\* C6 as stated: with d and r0 fixed, for every i >= 1 and every u1 < u2,
\* get_rate_at_node(r0, u1, d, i, i) < get_rate_at_node(r0, u2, d, i, i).
C6_MonotoneInUp ==
    TopStateCall =>
        \A u2 \in MoveSet : FLess(up_move, u2) => FLess(retval, TopRateWith(u2))

\* C6 amended: the same for r0 > 0 and 0 <= u1 < u2 (in exact arithmetic).
C6_MonotoneInUpPositive ==
    (TopStateCall /\ FLess(Zero, initial_rate) /\ ~FLess(up_move, Zero)) =>
        \A u2 \in MoveSet : FLess(up_move, u2) => FLess(retval, TopRateWith(u2))

C6_Witness ==
    /\ TopStateCall
    /\ arg_time = 2
    /\ initial_rate = Fin(1, 2)
    /\ up_move = Fin(1, 2)
    /\ retval = Fin(1, 8)
    /\ TopRateWith(Fin(2, 1)) = Fin(2, 1)

\* every cell of price row i has been assigned exactly once
RowFinal(i) == \A j \in 0..i : pwrites[<<i, j>>] = 1

\* C7: the backward pass of build_prices_tree processes the time steps in
\* strictly decreasing order from T-1 to 0: when cell (time,state) is computed
\* the rows time+1 .. T hold their final values while the rows below time are
\* still untouched, and a price cell, once assigned, is never assigned again
\* nor changes its value.
C7_BackwardOrder ==
    [][ /\ pc = "prices_loop" =>
              /\ \A i \in (PriceTime + 1)..Time : RowFinal(i)
              /\ \A c \in ValidCells(Time) : c[1] < PriceTime => pwrites[c] = 0
              /\ pwrites[<<PriceTime, PriceStep>>] = 0
              /\ pwrites'[<<PriceTime, PriceStep>>] = 1
              /\ price_tree[PriceTime + 1][PriceStep] =
                    price_tree'[PriceTime + 1][PriceStep]
              /\ price_tree[PriceTime + 1][PriceStep + 1] =
                    price_tree'[PriceTime + 1][PriceStep + 1]
              /\ pc' = "prices_loop" => PriceTime' <= PriceTime
              /\ pc' = "prices_return" => PriceTime = 0
        /\ \A c \in Cells(Time) :
              pwrites[c] >= 1 =>
                 /\ pwrites'[c] = pwrites[c]
                 /\ price_tree'[c[1]][c[2]] = price_tree[c[1]][c[2]]
      ]_vars

C7_Witness ==
    /\ fn = "build_prices_tree"
    /\ pc = "prices_loop"
    /\ Time = 2
    /\ PriceTime = 0
    /\ RowFinal(1)
    /\ RowFinal(2)
    /\ pwrites[<<0, 0>>] = 0

\* C8 as stated: during build_rates_tree every valid cell, the root (0,0)
\* included, is assigned a rate exactly one time.
C8_AssignedOnce ==
    \A c \in ValidCells(Time) :
        /\ rwrites[c] <= 1
        /\ RatesReturned => rwrites[c] = 1

\* C8 amended: get_rate_at_node is evaluated exactly once for every valid
\* cell and every valid cell but the root is assigned exactly once; the root
\* is assigned twice, initial_rate before the loops and its rate in the loops.
C8_ComputedOnce ==
    \A c \in ValidCells(Time) :
        LET expected == IF c = <<0, 0>> THEN 2 ELSE 1
        IN  /\ rcalls[c] <= 1
            /\ rwrites[c] <= expected
            /\ RatesReturned => (rcalls[c] = 1 /\ rwrites[c] = expected)

C8_Witness ==
    /\ fn = "build_rates_tree"
    /\ outcome = "returned"
    /\ Time = 2
    /\ rwrites[<<0, 0>>] = 2
    /\ rwrites[<<2, 2>>] = 1
    /\ rcalls[<<0, 0>>] = 1

\* every valid cell of the rate lattice has been computed and
\* build_rates_tree is over
RatesComplete ==
    /\ pc \notin {"prices_alloc", "prices_terminal", "rates_alloc",
                  "rates_root", "rates_loop"}
    /\ \A c \in ValidCells(Time) : rcalls[c] >= 1

\* the latest statement assigned a cell of lattice l ("R" or "P")
Wrote(l) == \E w \in wr : w[1] = l

\* C9 as stated: the rate lattice is completely built before any step of the
\* price-lattice computation, the terminal-row initialisation included, and
\* once built it is never written by the backward-induction stage.
C9_StagesNotInterleaved ==
    (fn \in {"build_prices_tree", "get_spot_rate"}) =>
        /\ Wrote("P") => RatesComplete
        /\ pc \in {"prices_loop", "prices_return", "spot"} => ~Wrote("R")

\* the price lattice holds the terminal row and nothing else
OnlyTerminalRow ==
    \A c \in Cells(Time) : pwrites[c] = (IF c[1] = Time THEN 1 ELSE 0)

\* C9 amended: the price lattice is allocated and its terminal row set
\* before build_rates_tree is called; the rate lattice is completely built
\* before any step of the backward loops, during its construction the price
\* lattice holds the terminal row only, and once built the rate lattice is
\* never written again.
C9_RatesBeforeBackwardPass ==
    /\ [](fn \in {"build_prices_tree", "get_spot_rate"} =>
            /\ (Wrote("P") /\ pc # "rates_alloc") => RatesComplete
            /\ (Wrote("P") /\ pc = "rates_alloc") =>
                  (OnlyTerminalRow /\ \A c \in Cells(Time) : rcalls[c] = 0)
            /\ Wrote("R") => OnlyTerminalRow
            /\ pc \in {"prices_loop", "prices_return", "spot"} => RatesComplete)
    /\ [][RatesComplete => (rates_tree' = rates_tree /\ rwrites' = rwrites)]_vars

C9_Witness ==
    /\ fn = "build_prices_tree"
    /\ pc = "prices_loop"
    /\ Time = 2
    /\ RatesComplete
    /\ Wrote("P")
    /\ pwrites[<<1, 1>>] = 1
    /\ pwrites[<<1, 0>>] = 0

\* the cell of an access <<lattice, row, column>> is structurally valid
ValidAccess(a) == a[2] \in 0..Time /\ a[3] \in 0..a[2]

\* the cell of an access has been assigned before
Assigned(a) ==
    IF a[1] = "R" THEN rwrites[<<a[2], a[3]>>] >= 1
    ELSE pwrites[<<a[2], a[3]>>] >= 1

\* C10: no statement of build_rates_tree and build_prices_tree reads or
\* assigns a cell with column > row; every cell read has been assigned
\* before, so the sentinel is never consumed as a rate or price; and on
\* return every price cell with column > row still holds the sentinel.
C10_NoInvalidCell ==
    /\ \A a \in rd \cup wr : ValidAccess(a) /\ Assigned(a)
    /\ \A c \in Cells(Time) \ ValidCells(Time) :
          /\ rwrites[c] = 0
          /\ pwrites[c] = 0
          /\ PricesReturned => price_tree[c[1]][c[2]] = NaN
          /\ RatesReturned => rates_tree[c[1]][c[2]] = NaN

C10_Witness ==
    /\ fn = "build_prices_tree"
    /\ outcome = "returned"
    /\ Time = 2
    /\ price_tree[0][1] = NaN
    /\ price_tree[1][2] = NaN
    /\ pwrites[<<0, 0>>] = 1
    /\ wr = {}

====
